---- MODULE Spec2Model ----
(***************************************************************************)
(* Model of the Markov chain word generator:                               *)
(*   script/generator/generator.mjs          MarkovChainWordGenerator      *)
(*   sequencing/char-depth-sequencing-strategy.mjs  CharDepth tokenizer    *)
(*   script/generator/data/generator-settings.mjs   GeneratorSettings      *)
(*   script/generator/data/user-flag-datasource.mjs settings on user flags *)
(* Strings are sequences of one-character strings.  Probabilities are      *)
(* exact rationals [num, den]; the floating point rounding of the code is  *)
(* not modelled.                                                           *)
(***************************************************************************)
EXTENDS Integers, Sequences, FiniteSets, TLC

VARIABLES args, strategy, entropy, gen, pipe, host

vars == <<args, strategy, entropy, gen, pipe, host>>

(***************************************************************************)
(* Bounds of the model.                                                    *)
(***************************************************************************)
MaxSampleLen == 3
MaxSamples == 2
MaxDepth == 2
MaxWords == 3
MaxTargetLength == 3
DrawSteps == 12

(***************************************************************************)
(* Strings.                                                                *)
(***************************************************************************)
Chars == {"b", "g", "o", "y", "B", "G", "O", "Y"}

LowerOf == [c \in Chars |->
              CASE c = "B" -> "b" [] c = "G" -> "g" [] c = "O" -> "o"
                [] c = "Y" -> "y" [] OTHER -> c]

UpperOf == [c \in Chars |->
              CASE c = "b" -> "B" [] c = "g" -> "G" [] c = "o" -> "O"
                [] c = "y" -> "Y" [] OTHER -> c]

\* String.prototype.toLowerCase, character by character.
toLowerCase(s) == [k \in 1..Len(s) |-> LowerOf[s[k]]]

\* String.prototype.substring(from, to) with 0-based offsets: both are
\* clamped to 0..length and swapped when from > to.
substring(s, from, to) ==
  LET clamp(x) == IF x < 0 THEN 0 ELSE IF x > Len(s) THEN Len(s) ELSE x
      lo == IF clamp(from) <= clamp(to) THEN clamp(from) ELSE clamp(to)
      hi == IF clamp(from) <= clamp(to) THEN clamp(to) ELSE clamp(from)
  IN  SubSeq(s, lo + 1, hi)

RECURSIVE join(_)
\* Array.prototype.join("") of a list of strings.
join(list) == IF list = <<>> THEN <<>> ELSE Head(list) \o join(Tail(list))

(***************************************************************************)
(* CharDepthSequencingStrategy.                                            *)
(***************************************************************************)
\* new Sequence({chars, isBeginning, isMiddle, isEnding})
Sequence(chars, isBeginning, isMiddle, isEnding) ==
  [chars |-> chars, isBeginning |-> isBeginning, isMiddle |-> isMiddle,
   isEnding |-> isEnding]

\* sequenceAt with the depth as the second argument of substring.
sequenceAt_depthAsEnd(strat, sample, i) ==
  LET raw == substring(sample, i, strat.depth)
      chars == IF strat.preserveCase # TRUE THEN toLowerCase(raw) ELSE raw
      hasFollowingChar == (i + 1) < Len(sample)
  IN  Sequence(chars, i = 0, i # 0 /\ hasFollowingChar = TRUE,
               hasFollowingChar # TRUE)

\* sequenceAt with hasFollowingChar looking one chunk ahead.
sequenceAt_chunkAhead(strat, sample, i) ==
  LET raw == substring(sample, i, i + strat.depth)
      chars == IF strat.preserveCase # TRUE THEN toLowerCase(raw) ELSE raw
      hasFollowingChar == (i + strat.depth) < Len(sample)
  IN  Sequence(chars, i = 0, i # 0 /\ hasFollowingChar = TRUE,
               hasFollowingChar # TRUE)

\* The body of the for loop of getSequencesOfSample for the offset i.
sequenceAt(strat, sample, i) ==
  LET raw == substring(sample, i, i + strat.depth)
      chars == IF strat.preserveCase # TRUE THEN toLowerCase(raw) ELSE raw
      hasFollowingChar == (i + 1) < Len(sample)
  IN  Sequence(chars, i = 0, i # 0 /\ hasFollowingChar = TRUE,
               hasFollowingChar # TRUE)

RECURSIVE getSequencesFrom(_, _, _)
\* for (let i = ...; i < sample.length; i += this.depth)
getSequencesFrom(strat, sample, i) ==
  IF i < Len(sample)
  THEN <<sequenceAt(strat, sample, i)>>
       \o getSequencesFrom(strat, sample, i + strat.depth)
  ELSE <<>>

getSequencesOfSample(strat, sample) == getSequencesFrom(strat, sample, 0)

RECURSIVE getSequencesOfSet(_, _)
\* AbstractSequencingStrategy.getSequencesOfSet: the sequences of every
\* sample, in the order of the sample set.
getSequencesOfSet(strat, sampleSet) ==
  IF sampleSet = <<>> THEN <<>>
  ELSE getSequencesOfSample(strat, Head(sampleSet))
       \o getSequencesOfSet(strat, Tail(sampleSet))

(***************************************************************************)
(* Aggregation.                                                            *)
(***************************************************************************)
AggregatedSequence(chars) ==
  [chars |-> chars, frequencyBeginning |-> 0, frequencyMiddle |-> 0,
   frequencyEnding |-> 0, frequency |-> 0]

\* Index of the entry of the insertion-ordered map whose key is chars, 0 if
\* there is none.
mapIndex(map, chars) ==
  IF \E k \in 1..Len(map) : map[k].chars = chars
  THEN CHOOSE k \in 1..Len(map) : map[k].chars = chars
  ELSE 0

\* aggregateOne with frequency counted once per role of the sequence.
aggregateOne_perRole(map, sequence) ==
  LET found == mapIndex(map, sequence.chars)
      m == IF found = 0 THEN Append(map, AggregatedSequence(sequence.chars))
           ELSE map
      k == IF found = 0 THEN Len(m) ELSE found
      old == m[k]
      b == IF sequence.isBeginning = TRUE THEN 1 ELSE 0
      c == IF sequence.isMiddle = TRUE THEN 1 ELSE 0
      e == IF sequence.isEnding = TRUE THEN 1 ELSE 0
  IN  [m EXCEPT ![k] =
        [chars |-> old.chars,
         frequencyBeginning |-> old.frequencyBeginning + b,
         frequencyMiddle |-> old.frequencyMiddle + c,
         frequencyEnding |-> old.frequencyEnding + e,
         frequency |-> old.frequency + b + c + e]]

\* One iteration of the loop of _aggregateSequences.
aggregateOne(map, sequence) ==
  LET found == mapIndex(map, sequence.chars)
      m == IF found = 0 THEN Append(map, AggregatedSequence(sequence.chars))
           ELSE map
      k == IF found = 0 THEN Len(m) ELSE found
      old == m[k]
  IN  [m EXCEPT ![k] =
        [chars |-> old.chars,
         frequencyBeginning |-> old.frequencyBeginning
                                + (IF sequence.isBeginning = TRUE THEN 1 ELSE 0),
         frequencyMiddle |-> old.frequencyMiddle
                             + (IF sequence.isMiddle = TRUE THEN 1 ELSE 0),
         frequencyEnding |-> old.frequencyEnding
                             + (IF sequence.isEnding = TRUE THEN 1 ELSE 0),
         frequency |-> old.frequency + 1]]

RECURSIVE aggregateInto(_, _)
aggregateInto(map, sequences) ==
  IF sequences = <<>> THEN map
  ELSE aggregateInto(aggregateOne(map, Head(sequences)), Tail(sequences))

\* The values of the map, in insertion order.
_aggregateSequences(sequences) == aggregateInto(<<>>, sequences)

(***************************************************************************)
(* Probabilities.                                                          *)
(***************************************************************************)
Rat(n, d) == [num |-> n, den |-> d]
RatZero == Rat(0, 1)
RatOne == Rat(1, 1)
RatLeq(p, q) == p.num * q.den <= q.num * p.den
RatLt(p, q) == p.num * q.den < q.num * p.den
RatAdd(p, q) ==
  IF p.den = q.den THEN Rat(p.num + q.num, p.den)
  ELSE Rat(p.num * q.den + q.num * p.den, p.den * q.den)

RECURSIVE sumOf(_, _)
sumOf(list, field) ==
  IF list = <<>> THEN 0 ELSE Head(list)[field] + sumOf(Tail(list), field)

_getAggregatedSequenceProbabilities(aggregatedSequences) ==
  LET frequencyTotalBeginnings == sumOf(aggregatedSequences, "frequencyBeginning")
      frequencyTotalMiddles == sumOf(aggregatedSequences, "frequencyMiddle")
      frequencyTotalEndings == sumOf(aggregatedSequences, "frequencyEnding")
      frequencyTotal == Len(aggregatedSequences)
  IN  [k \in 1..Len(aggregatedSequences) |->
        LET a == aggregatedSequences[k]
            totalOccurrences == a.frequencyBeginning + a.frequencyMiddle
                                + a.frequencyEnding
        IN  [sequence |-> a,
             probabilityBeginning |->
               IF a.frequencyBeginning > 0
               THEN Rat(a.frequencyBeginning, frequencyTotalBeginnings)
               ELSE RatZero,
             probabilityMiddle |->
               IF a.frequencyMiddle > 0
               THEN Rat(a.frequencyMiddle, frequencyTotalMiddles)
               ELSE RatZero,
             probabilityEnding |->
               IF a.frequencyEnding > 0
               THEN Rat(a.frequencyEnding, frequencyTotalEndings)
               ELSE RatZero,
             probability |-> Rat(totalOccurrences, frequencyTotal)]]

(***************************************************************************)
(* Weighted tables.                                                        *)
(***************************************************************************)
SEQUENCE_TYPES == [BEGINNING |-> 0, MIDDLE |-> 1, ENDING |-> 2]

ProbabilityAndSequence(sequence, probability) ==
  [probability |-> probability, sequence |-> sequence]

\* The value of the comparator of line 319 as Array.prototype.sort reads it.
\* The arrow function has a block body that holds an expression statement
\* and no return, so every call yields undefined, which sort treats as +0.
comparefn(a, b) == 0

\* Inserts x into the sorted list behind every element that does not compare
\* greater than x (a stable insertion).
RECURSIVE sortInsert(_, _)
sortInsert(sorted, x) ==
  IF sorted = <<>> THEN <<x>>
  ELSE LET last == sorted[Len(sorted)]
       IN  IF comparefn(last, x) > 0
           THEN Append(sortInsert(SubSeq(sorted, 1, Len(sorted) - 1), x), last)
           ELSE Append(sorted, x)

RECURSIVE sortFrom(_, _)
sortFrom(sorted, rest) ==
  IF rest = <<>> THEN sorted
  ELSE sortFrom(sortInsert(sorted, Head(rest)), Tail(rest))

\* Array.prototype.sort(comparefn): a stable sort by the comparator.
sort(list) == sortFrom(<<>>, list)

RECURSIVE filterMap_keepZero(_, _)
\* filterMap with the filter p[field] >= 0.
filterMap_keepZero(probabilities, field) ==
  IF probabilities = <<>> THEN <<>>
  ELSE LET it == Head(probabilities)
       IN  (IF RatLeq(RatZero, it[field])
            THEN <<ProbabilityAndSequence(it.sequence, it[field])>>
            ELSE <<>>)
           \o filterMap_keepZero(Tail(probabilities), field)

RECURSIVE filterMap(_, _)
\* probabilities.filter(p[field] > 0).map(new ProbabilityAndSequence(...))
filterMap(probabilities, field) ==
  IF probabilities = <<>> THEN <<>>
  ELSE LET it == Head(probabilities)
       IN  (IF RatLt(RatZero, it[field])
            THEN <<ProbabilityAndSequence(it.sequence, it[field])>>
            ELSE <<>>)
           \o filterMap(Tail(probabilities), field)

RECURSIVE enrich(_, _)
\* The loop that replaces every probability by the running sum.
enrich(newProbability, list) ==
  IF list = <<>> THEN <<>>
  ELSE LET o == Head(list)
           sum == RatAdd(newProbability, o.probability)
       IN  <<[probability |-> sum, sequence |-> o.sequence]>>
           \o enrich(sum, Tail(list))

\* The filtered list of the given type, before it is sorted.
filtered(probabilities, type) ==
  IF type = SEQUENCE_TYPES.BEGINNING
  THEN filterMap(probabilities, "probabilityBeginning")
  ELSE IF type = SEQUENCE_TYPES.MIDDLE
  THEN filterMap(probabilities, "probabilityMiddle")
  ELSE IF type = SEQUENCE_TYPES.ENDING
  THEN filterMap(probabilities, "probabilityEnding")
  ELSE <<>>

\* The result is [threw, value]: the assignment to the last entry throws a
\* TypeError when the list is empty, weightedAndSorted[-1] being undefined.
_getWeightedProbabilities(probabilities, type) ==
  LET filteredAndSorted == sort(filtered(probabilities, type))
      weightedAndSorted == enrich(RatZero, filteredAndSorted)
      n == Len(weightedAndSorted)
  IN  IF n = 0
      THEN [threw |-> TRUE, value |-> <<>>]
      ELSE [threw |-> FALSE,
            value |-> [weightedAndSorted EXCEPT ![n].probability = RatOne]]

(***************************************************************************)
(* RandomSeeded (util/random-seed.mjs): a deterministic generator whose     *)
(* state is advanced by every draw.  Modelled as a full-period linear      *)
(* congruential generator over 0..RngModulus-1; a draw yields the fraction *)
(* state / RngModulus of [0, 1).                                           *)
(***************************************************************************)
RngModulus == 16

Seeds == {"undefined", "Test1234567890"}

\* new RandomSeeded(seed): an undefined seed falls back to a fixed one.
RandomSeeded(seed) ==
  CASE seed = "undefined" -> 0
    [] OTHER -> 7

rngAdvance(state) == (5 * state + 3) % RngModulus

\* rng.generate(): [value, rng], value a fraction of [0, 1).
rngGenerate(state) ==
  [value |-> Rat(rngAdvance(state), RngModulus), rng |-> rngAdvance(state)]

\* rng.generate(min, max): min + value * (max - min).
rngGenerateBetween(state, min, max) ==
  LET d == rngGenerate(state)
  IN  [value |-> Rat(min * d.value.den + d.value.num * (max - min), d.value.den),
       rng |-> d.rng]

\* Math.round: the nearest integer, a half rounded up.
round(x) == (2 * x.num + x.den) \div (2 * x.den)

(***************************************************************************)
(* Word assembly.                                                          *)
(***************************************************************************)
\* _getMatchingSequence with value < weightedItem.probability.
_getMatchingSequence_strict(weightedList, value) ==
  IF \E k \in 1..Len(weightedList) : RatLt(value, weightedList[k].probability)
  THEN [threw |-> FALSE,
        item |-> weightedList[
          CHOOSE k \in 1..Len(weightedList) :
            /\ RatLt(value, weightedList[k].probability)
            /\ \A j \in 1..(k - 1) : ~RatLt(value, weightedList[j].probability)]]
  ELSE [threw |-> TRUE, item |-> <<>>]

\* _getMatchingSequence: [threw, item], the first item whose probability is
\* at least value; throws when there is none.
_getMatchingSequence(weightedList, value) ==
  IF \E k \in 1..Len(weightedList) : RatLeq(value, weightedList[k].probability)
  THEN [threw |-> FALSE,
        item |-> weightedList[
          CHOOSE k \in 1..Len(weightedList) :
            /\ RatLeq(value, weightedList[k].probability)
            /\ \A j \in 1..(k - 1) : ~RatLeq(value, weightedList[j].probability)]]
  ELSE [threw |-> TRUE, item |-> <<>>]

\* middleNeeded with <= in place of <.
middleNeeded_inclusive(charactersLength, targetLength) ==
  charactersLength <= targetLength

\* while (charactersLength < targetLength)
middleNeeded(charactersLength, targetLength) == charactersLength < targetLength

RECURSIVE middleLoop(_, _, _, _, _)
\* The loop over the middle sequences: [threw, rng, middles]
middleLoop(probableMiddles, rng, charactersLength, targetLength, middles) ==
  IF middleNeeded(charactersLength, targetLength)
  THEN LET rndMiddle == rngGenerate(rng)
           m == _getMatchingSequence(probableMiddles, rndMiddle.value)
       IN  IF m.threw
           THEN [threw |-> TRUE, rng |-> rndMiddle.rng, middles |-> middles]
           ELSE middleLoop(probableMiddles, rndMiddle.rng,
                           charactersLength + Len(m.item.sequence.chars),
                           targetLength,
                           Append(middles, m.item.sequence))
  ELSE [threw |-> FALSE, rng |-> rng, middles |-> middles]

\* _generateSingleWord with the ending drawn before the beginning.
_generateSingleWord_endingFirst(probableBeginnings, probableMiddles, probableEndings, minLength, maxLength, rng) ==
  LET rndTarget == rngGenerateBetween(rng, minLength, maxLength)
      targetLength == round(rndTarget.value)
      rndEnding == rngGenerate(rndTarget.rng)
      e == _getMatchingSequence(probableEndings, rndEnding.value)
      rndBeginning == rngGenerate(rndEnding.rng)
      b == _getMatchingSequence(probableBeginnings, rndBeginning.value)
      failed(r) == [threw |-> TRUE, word |-> <<>>, rng |-> r,
                    targetLength |-> targetLength, beginning |-> <<>>,
                    middles |-> <<>>, ending |-> <<>>]
  IN  IF e.threw THEN failed(rndEnding.rng)
      ELSE IF b.threw THEN failed(rndBeginning.rng)
      ELSE LET beginningSequence == b.item.sequence
               endingSequence == e.item.sequence
               loop == middleLoop(probableMiddles, rndBeginning.rng,
                                  Len(beginningSequence.chars)
                                  + Len(endingSequence.chars),
                                  targetLength, <<>>)
               resultingSequences ==
                 <<beginningSequence>> \o loop.middles \o <<endingSequence>>
           IN  IF loop.threw THEN failed(loop.rng)
               ELSE [threw |-> FALSE,
                     word |-> join([k \in 1..Len(resultingSequences) |->
                                      resultingSequences[k].chars]),
                     rng |-> loop.rng,
                     targetLength |-> targetLength,
                     beginning |-> beginningSequence.chars,
                     middles |-> [k \in 1..Len(loop.middles) |->
                                    loop.middles[k].chars],
                     ending |-> endingSequence.chars]

\* _generateSingleWord: [threw, word, rng] and, for the properties, the
\* target length and the sequences that were drawn.
_generateSingleWord(probableBeginnings, probableMiddles, probableEndings, minLength, maxLength, rng) ==
  LET rndTarget == rngGenerateBetween(rng, minLength, maxLength)
      targetLength == round(rndTarget.value)
      rndBeginning == rngGenerate(rndTarget.rng)
      b == _getMatchingSequence(probableBeginnings, rndBeginning.value)
      rndEnding == rngGenerate(rndBeginning.rng)
      e == _getMatchingSequence(probableEndings, rndEnding.value)
      failed(r) == [threw |-> TRUE, word |-> <<>>, rng |-> r,
                    targetLength |-> targetLength, beginning |-> <<>>,
                    middles |-> <<>>, ending |-> <<>>]
  IN  IF b.threw THEN failed(rndBeginning.rng)
      ELSE IF e.threw THEN failed(rndEnding.rng)
      ELSE LET beginningSequence == b.item.sequence
               endingSequence == e.item.sequence
               loop == middleLoop(probableMiddles, rndEnding.rng,
                                  Len(beginningSequence.chars)
                                  + Len(endingSequence.chars),
                                  targetLength, <<>>)
               resultingSequences ==
                 <<beginningSequence>> \o loop.middles \o <<endingSequence>>
           IN  IF loop.threw THEN failed(loop.rng)
               ELSE [threw |-> FALSE,
                     word |-> join([k \in 1..Len(resultingSequences) |->
                                      resultingSequences[k].chars]),
                     rng |-> loop.rng,
                     targetLength |-> targetLength,
                     beginning |-> beginningSequence.chars,
                     middles |-> [k \in 1..Len(loop.middles) |->
                                    loop.middles[k].chars],
                     ending |-> endingSequence.chars]

(***************************************************************************)
(* BeginningCapitalsSpellingStrategy.apply                                 *)
(* (postprocessing/beginning-capitals-strategy.mjs): the first character   *)
(* in upper case, the rest unchanged.                                      *)
(***************************************************************************)
apply(word) ==
  IF word = <<>> THEN word ELSE <<UpperOf[Head(word)]>> \o Tail(word)

(***************************************************************************)
(* Argument values: undefined, or a number num / den.                      *)
(***************************************************************************)
Undefined == [kind |-> "undefined", num |-> 0, den |-> 1]
Number(n, d) == [kind |-> "number", num |-> n, den |-> d]

\* util/validation.mjs isInteger: a number without a fractional part.
isInteger(x) == x.kind = "number" /\ x.num % x.den = 0

\* parseInt of a number: the number truncated towards zero.
parseInt(x) ==
  IF x.num >= 0 THEN x.num \div x.den ELSE 0 - ((0 - x.num) \div x.den)

(***************************************************************************)
(* new CharDepthSequencingStrategy(depth = 1, preserveCase = false)        *)
(***************************************************************************)
CharDepthSequencingStrategy(depthArg, preserveCase) ==
  LET depth == IF depthArg.kind = "undefined" THEN Number(1, 1) ELSE depthArg
  IN  IF isInteger(depth) # TRUE \/ parseInt(depth) <= 0
      THEN [status |-> "threw", depth |-> 0, preserveCase |-> FALSE]
      ELSE [status |-> "constructed", depth |-> parseInt(depth),
            preserveCase |-> preserveCase]

NoStrategy == [status |-> "none", depth |-> 0, preserveCase |-> FALSE]

(***************************************************************************)
(* MarkovChainWordGenerator.                                               *)
(***************************************************************************)
repetitionMaximum == 1000

WordUndefined == [def |-> FALSE, chars |-> <<>>]

NoAttempt == [try |-> 0, threw |-> FALSE, word |-> <<>>, targetLength |-> 0,
              beginning |-> <<>>, middles |-> <<>>, ending |-> <<>>]

\* The fields of an instance and the locals of its generate() call.  last
\* records the latest call of _generateSingleWord, try being its number
\* among the attempts for its word; attempts counts the calls of
\* _generateSingleWord of the generate() call; calls is the list of the
\* outcomes of the generate() calls so far.
NoGenerator ==
  [status |-> "none", sampleSet |-> <<>>, targetLengthMin |-> 0,
   targetLengthMax |-> 0, seed |-> "undefined",
   sequencingStrategy |-> NoStrategy, spellingStrategy |-> "undefined",
   rng |-> 0, pc |-> "idle", howMany |-> 0, i |-> 0, attempt |-> 0,
   word |-> WordUndefined, words |-> <<>>, probableBeginnings |-> <<>>,
   probableMiddles |-> <<>>, probableEndings |-> <<>>,
   last |-> NoAttempt, attempts |-> 0, calls |-> <<>>]

\* constructor_rng with new RandomSeeded() seeded from the entropy of the
\* system in place of the seed.
constructor_rng_unseeded(seed, systemEntropy) == systemEntropy % RngModulus

\* this._rng = new RandomSeeded(this._seed); the constructor does not read
\* the entropy of the system.
constructor_rng(seed, systemEntropy) == RandomSeeded(seed)

\* constructor_throws with targetLengthMin checked in place of
\* targetLengthMax.
constructor_throws_minTwice(a) ==
  \/ a.sampleSet.kind = "undefined" \/ Len(a.sampleSet.val) = 0
  \/ isInteger(a.targetLengthMin) # TRUE \/ parseInt(a.targetLengthMin) <= 0
  \/ isInteger(a.targetLengthMin) # TRUE \/ parseInt(a.targetLengthMin) <= 0
  \/ a.sequencingStrategy.status = "none"

\* Lines 110-121: the four checks of the constructor.
constructor_throws(a) ==
  \/ a.sampleSet.kind = "undefined" \/ Len(a.sampleSet.val) = 0
  \/ isInteger(a.targetLengthMin) # TRUE \/ parseInt(a.targetLengthMin) <= 0
  \/ isInteger(a.targetLengthMax) # TRUE \/ parseInt(a.targetLengthMax) <= 0
  \/ a.sequencingStrategy.status = "none"

\* The constructor: the instance, or status "threw" and no instance.
constructor(a, systemEntropy) ==
  IF constructor_throws(a)
  THEN [NoGenerator EXCEPT !.status = "threw"]
  ELSE [NoGenerator EXCEPT
          !.status = "constructed",
          !.sampleSet = a.sampleSet.val,
          !.targetLengthMin = parseInt(a.targetLengthMin),
          !.targetLengthMax = parseInt(a.targetLengthMax),
          !.seed = a.seed,
          !.sequencingStrategy = a.sequencingStrategy,
          !.spellingStrategy = a.spellingStrategy,
          !.rng = constructor_rng(a.seed, systemEntropy)]

\* The end of a generate() call by a throw: nothing is returned, and the
\* tables, which are locals of the call, are gone.
generate_throw(self, error) ==
  [self EXCEPT !.pc = "idle",
     !.probableBeginnings = <<>>, !.probableMiddles = <<>>,
     !.probableEndings = <<>>,
     !.calls = Append(@, [howMany |-> self.howMany, threw |-> error,
                          value |-> <<>>])]

\* Lines 176-181: the words, the spelling strategy applied when defined.
generate_result(self, words) ==
  IF self.spellingStrategy # "undefined"
  THEN [k \in 1..Len(words) |-> apply(words[k])]
  ELSE words

generate_return(self) ==
  [self EXCEPT !.pc = "idle",
     !.probableBeginnings = <<>>, !.probableMiddles = <<>>,
     !.probableEndings = <<>>,
     !.calls = Append(@, [howMany |-> self.howMany, threw |-> "none",
                          value |-> generate_result(self, self.words)])]

\* generate_for with the loop condition i <= howMany.
generate_for_inclusive(self) ==
  IF self.i <= self.howMany
  THEN [self EXCEPT !.pc = "do", !.word = WordUndefined, !.attempt = 0]
  ELSE generate_return(self)

\* The head of the for loop: the next word, or the return.
generate_for(self) ==
  IF self.i < self.howMany
  THEN [self EXCEPT !.pc = "do", !.word = WordUndefined, !.attempt = 0]
  ELSE generate_return(self)

\* generate_enter with the random source seeded anew by every call.
generate_enter_reseeded(self, howMany) ==
  LET sequences == getSequencesOfSet(self.sequencingStrategy, self.sampleSet)
      aggregatedSequences == _aggregateSequences(sequences)
      probabilities == _getAggregatedSequenceProbabilities(aggregatedSequences)
      probableBeginnings ==
        _getWeightedProbabilities(probabilities, SEQUENCE_TYPES.BEGINNING)
      probableMiddles ==
        _getWeightedProbabilities(probabilities, SEQUENCE_TYPES.MIDDLE)
      probableEndings ==
        _getWeightedProbabilities(probabilities, SEQUENCE_TYPES.ENDING)
      entered == [self EXCEPT !.howMany = howMany, !.i = 0, !.attempt = 0,
                    !.word = WordUndefined, !.words = <<>>,
                    !.last = NoAttempt, !.attempts = 0,
                    !.rng = RandomSeeded(self.seed),
                    !.probableBeginnings = <<>>, !.probableMiddles = <<>>,
                    !.probableEndings = <<>>]
  IN  IF probableBeginnings.threw \/ probableMiddles.threw
         \/ probableEndings.threw
      THEN generate_throw(entered, "TypeError")
      ELSE generate_for([entered EXCEPT
             !.probableBeginnings = probableBeginnings.value,
             !.probableMiddles = probableMiddles.value,
             !.probableEndings = probableEndings.value])

\* Lines 141-152: the tables are built, then the loop over the words begins.
generate_enter(self, howMany) ==
  LET sequences == getSequencesOfSet(self.sequencingStrategy, self.sampleSet)
      aggregatedSequences == _aggregateSequences(sequences)
      probabilities == _getAggregatedSequenceProbabilities(aggregatedSequences)
      probableBeginnings ==
        _getWeightedProbabilities(probabilities, SEQUENCE_TYPES.BEGINNING)
      probableMiddles ==
        _getWeightedProbabilities(probabilities, SEQUENCE_TYPES.MIDDLE)
      probableEndings ==
        _getWeightedProbabilities(probabilities, SEQUENCE_TYPES.ENDING)
      entered == [self EXCEPT !.howMany = howMany, !.i = 0, !.attempt = 0,
                    !.word = WordUndefined, !.words = <<>>,
                    !.last = NoAttempt, !.attempts = 0,
                    !.probableBeginnings = <<>>, !.probableMiddles = <<>>,
                    !.probableEndings = <<>>]
  IN  IF probableBeginnings.threw \/ probableMiddles.threw
         \/ probableEndings.threw
      THEN generate_throw(entered, "TypeError")
      ELSE generate_for([entered EXCEPT
             !.probableBeginnings = probableBeginnings.value,
             !.probableMiddles = probableMiddles.value,
             !.probableEndings = probableEndings.value])

\* exceeded with the ceiling reached one attempt early.
exceeded_early(attempt) == attempt + 1 >= repetitionMaximum

\* exceeded with > in place of >=.
exceeded_late(attempt) == attempt > repetitionMaximum

\* if (attempt >= repetitionMaximum), and attempt + 1 in the catch block
exceeded(attempt) == attempt >= repetitionMaximum

\* while (word === undefined || words.find(it => it === word) !== undefined)
generate_again(word, words) ==
  word.def = FALSE \/ \E j \in 1..Len(words) : words[j] = word.chars

\* Lines 156-174: one iteration of the do-while loop and, when the loop
\* ends, the push of the word and the step of the for loop.
generate_attempt(self) ==
  IF exceeded(self.attempt)
  THEN generate_throw(self, "Error")
  ELSE LET r == _generateSingleWord(self.probableBeginnings,
                  self.probableMiddles, self.probableEndings,
                  self.targetLengthMin, self.targetLengthMax, self.rng)
           tried == [self EXCEPT !.rng = r.rng, !.attempts = @ + 1,
                       !.last = [try |-> self.attempt + 1,
                                 threw |-> r.threw, word |-> r.word,
                                 targetLength |-> r.targetLength,
                                 beginning |-> r.beginning,
                                 middles |-> r.middles, ending |-> r.ending]]
       IN  IF r.threw /\ exceeded(self.attempt + 1)
           THEN generate_throw(tried, "Error")
           ELSE LET word == IF r.threw THEN self.word
                            ELSE [def |-> TRUE, chars |-> r.word]
                    next == [tried EXCEPT !.word = word, !.attempt = @ + 1]
                IN  IF generate_again(word, self.words)
                    THEN next
                    ELSE generate_for([next EXCEPT
                           !.words = Append(@, word.chars), !.i = @ + 1])

(***************************************************************************)
(* The inputs.                                                             *)
(***************************************************************************)
Corpora ==
  { << <<"B", "o", "b">>, <<"G", "o", "b", "o", "b">>,
       <<"B", "o", "b", "b", "y">> >>,
    << <<"b", "o", "b">>, <<"B", "o", "b">> >>,
    << <<"G", "o">> >>,
    << <<"o">>, <<"G", "o", "b", "o", "b">> >> }

SampleSetArgs ==
  {[kind |-> "undefined", val |-> <<>>], [kind |-> "array", val |-> <<>>]}
  \cup {[kind |-> "array", val |-> c] : c \in Corpora}

LengthArgs ==
  {Undefined, Number(0, 1), Number(3, 2)}
  \cup {Number(n, 1) : n \in 1..MaxTargetLength}

DepthArgs == {Undefined, Number(0, 1), Number(3, 2), Number(1, 1), Number(2, 1)}

Args ==
  [sampleSet : SampleSetArgs, targetLengthMin : LengthArgs,
   targetLengthMax : LengthArgs, depth : DepthArgs, preserveCase : BOOLEAN,
   passStrategy : BOOLEAN, spellingStrategy : {"undefined", "BeginningCapitals"},
   seed : Seeds]

NoTable == [threw |-> FALSE, value |-> <<>>]

NoDraw == [type |-> 0, value |-> RatZero, threw |-> FALSE, item |-> <<>>]

NoPipe == [stage |-> "idle", sampleSet |-> <<>>, strat |-> NoStrategy,
           sequences |-> <<>>, aggregated |-> <<>>, probabilities |-> <<>>,
           probableBeginnings |-> NoTable, probableMiddles |-> NoTable,
           probableEndings |-> NoTable, draw |-> NoDraw]

\* The strings of at most n characters of the set chars.
RECURSIVE Strings(_, _)
Strings(chars, n) ==
  IF n = 0 THEN {<<>>}
  ELSE LET shorter == Strings(chars, n - 1)
       IN  shorter \cup {Append(t, c) : t \in shorter, c \in chars}

\* The sample sets of the tokenization: one sample of mixed case, or up to
\* MaxSamples samples of two letters.
\* The corpora of the generators and one corpus that gives every role three
\* or more distinct tokens.
PipeCorpora ==
  Corpora \cup { << <<"b", "o", "g", "y">>, <<"g", "o", "b", "o">>,
                    <<"o", "b", "y", "g">>, <<"y", "o", "g", "o">> >> }

PipeSampleSets ==
  {<<t>> : t \in Strings({"B", "G", "b", "o"}, MaxSampleLen)}
  \cup UNION {[1..n -> Strings({"b", "o"}, MaxSampleLen)] : n \in 1..MaxSamples}
  \cup PipeCorpora

PipeStrategies ==
  {CharDepthSequencingStrategy(Number(d, 1), p) : d \in 1..MaxDepth, p \in BOOLEAN}

(***************************************************************************)
(* GeneratorSettings (data/generator-settings.mjs).  A value that may be   *)
(* undefined is a record with its kind; reading a property that an object *)
(* does not have gives undefined.                                          *)
(***************************************************************************)
SEQUENCING_STRATEGIES == [CHAR_DEPTH |-> "CHAR_DEPTH", DELIMITER |-> "DELIMITER"]

SPELLING_STRATEGIES == [CAPITALIZE_FIRST_LETTER |-> "CAPITALIZE_FIRST_LETTER"]

Boolean(b) == [kind |-> "boolean", num |-> IF b THEN 1 ELSE 0, den |-> 1]

String(t) == [kind |-> "string", str |-> t]

NoString == [kind |-> "undefined", str |-> ""]

\* A sequencing strategy object: its class and its fields.
StrategyObject(class, depth, preserveCase, delimiter) ==
  [class |-> class, depth |-> depth, preserveCase |-> preserveCase,
   delimiter |-> delimiter]

\* The result of a constructor that threw.
NoObject == StrategyObject("none", Undefined, Undefined, NoString)

\* new CharDepthSequencingStrategy(depth, preserveCase) as an object of the
\* settings: preserveCase ?? false, an undefined argument taking the
\* default of its parameter.
newCharDepthSequencingStrategy(depth, preserveCase) ==
  LET made == CharDepthSequencingStrategy(depth, preserveCase.kind = "boolean"
                                                  /\ preserveCase.num = 1)
  IN  IF made.status = "threw" THEN [threw |-> TRUE, value |-> NoObject]
      ELSE [threw |-> FALSE,
            value |-> StrategyObject("CharDepthSequencingStrategy",
                                     Number(made.depth, 1),
                                     Boolean(made.preserveCase), NoString)]

\* new DelimiterSequencingStrategy(delimiter)
\* (sequencing/delimiter-sequencing-strategy.mjs)
DelimiterSequencingStrategy(delimiter) ==
  [threw |-> FALSE,
   value |-> StrategyObject("DelimiterSequencingStrategy", Undefined,
                            Undefined, delimiter)]

\* CharDepthSequencingStrategy.getSettings(): {depth, preserveCase}
CharDepth_getSettings(strat) ==
  [depth |-> strat.depth, preserveCase |-> strat.preserveCase,
   delimiter |-> NoString]

\* DelimiterSequencingStrategy.getSettings(): {delimiter}
Delimiter_getSettings(strat) ==
  [depth |-> Undefined, preserveCase |-> Undefined,
   delimiter |-> strat.delimiter]

\* this.sequencingStrategy.getSettings(), by the class of the strategy
getSettings(strat) ==
  IF strat.class = "CharDepthSequencingStrategy"
  THEN CharDepth_getSettings(strat)
  ELSE Delimiter_getSettings(strat)

\* new GeneratorSettings(args); the entropy values and the ending pick mode,
\* which are copied as they are, are one field.
GeneratorSettings(id, name, sampleSet, targetLengthMin, targetLengthMax, sequencingStrategy, spellingStrategy, entropies) ==
  [id |-> id, name |-> name, sampleSet |-> sampleSet,
   targetLengthMin |-> targetLengthMin, targetLengthMax |-> targetLengthMax,
   sequencingStrategy |-> sequencingStrategy,
   spellingStrategy |-> spellingStrategy, entropy |-> entropies]

NoSettings ==
  GeneratorSettings("", "", <<>>, 0, 0, NoObject, "undefined", 0)

NoSettingsObject ==
  [id |-> "", name |-> "", sampleSet |-> <<>>, targetLengthMin |-> 0,
   targetLengthMax |-> 0, sequencingStrategy |-> "",
   sequencingStrategySettings |-> getSettings(NoObject),
   spellingStrategy |-> "", entropy |-> 0]

\* toObject(): this.spellingStrategy.getSettings() throws a TypeError when
\* there is no spelling strategy; the kind of the sequencing strategy is
\* always CHAR_DEPTH.  The settings of the BeginningCapitals strategy are
\* empty and are not read by fromObject.
toObject(self) ==
  IF self.spellingStrategy = "undefined"
  THEN [threw |-> TRUE, value |-> NoSettingsObject]
  ELSE [threw |-> FALSE,
        value |->
          [id |-> self.id, name |-> self.name, sampleSet |-> self.sampleSet,
           targetLengthMin |-> self.targetLengthMin,
           targetLengthMax |-> self.targetLengthMax,
           sequencingStrategy |-> SEQUENCING_STRATEGIES.CHAR_DEPTH,
           sequencingStrategySettings |-> getSettings(self.sequencingStrategy),
           spellingStrategy |-> SPELLING_STRATEGIES.CAPITALIZE_FIRST_LETTER,
           entropy |-> self.entropy]]

_getSequencingStrategy(strat, settings) ==
  IF strat = SEQUENCING_STRATEGIES.CHAR_DEPTH
  THEN newCharDepthSequencingStrategy(settings.depth, settings.preserveCase)
  ELSE IF strat = SEQUENCING_STRATEGIES.DELIMITER
  THEN DelimiterSequencingStrategy(settings.delimiter)
  ELSE [threw |-> TRUE, value |-> NoObject]

_getSpellingStrategy(strat) ==
  IF strat = SPELLING_STRATEGIES.CAPITALIZE_FIRST_LETTER
  THEN "BeginningCapitals"
  ELSE "undefined"

\* fromObject(obj) of an object that is not undefined
fromObject(obj) ==
  LET sequencingStrategy ==
        _getSequencingStrategy(obj.sequencingStrategy,
                               obj.sequencingStrategySettings)
  IN  IF sequencingStrategy.threw
      THEN [threw |-> TRUE, value |-> NoSettings]
      ELSE [threw |-> FALSE,
            value |-> GeneratorSettings(obj.id, obj.name, obj.sampleSet,
                        obj.targetLengthMin, obj.targetLengthMax,
                        sequencingStrategy.value,
                        _getSpellingStrategy(obj.spellingStrategy),
                        obj.entropy)]

(***************************************************************************)
(* UserFlagGeneratorSettingsDataSource (data/user-flag-datasource.mjs).    *)
(* The host keeps one flag per user: not set, or the array that was stored *)
(* last.                                                                   *)
(***************************************************************************)
\* The users that game.users knows.
Users == {"u1"}

NoFlag == [set |-> FALSE, value |-> <<>>]

\* user.getFlag(FLAG_SCOPE, KEY_FLAG) ?? []
getFlag(flags, userId) ==
  IF flags[userId].set THEN flags[userId].value ELSE <<>>

\* user.setFlag(FLAG_SCOPE, KEY_FLAG, arr)
setFlag(flags, userId, arr) ==
  [flags EXCEPT ![userId] = [set |-> TRUE, value |-> arr]]

\* arr.findIndex(it => it.id === id): the offset of the first match, or -1
findIndex(arr, id) ==
  IF \E k \in 1..Len(arr) : arr[k].id = id
  THEN (CHOOSE k \in 1..Len(arr) :
          arr[k].id = id /\ \A j \in 1..(k - 1) : arr[j].id # id) - 1
  ELSE -1

\* arr.splice(index, deleteCount, ...items)
splice(arr, index, deleteCount, items) ==
  SubSeq(arr, 1, index) \o items \o SubSeq(arr, index + deleteCount + 1, Len(arr))

\* set(userId, generatorSetting): [threw, flags]
set(flags, userId, generatorSetting) ==
  IF userId \notin Users THEN [threw |-> FALSE, flags |-> flags]
  ELSE LET arr == getFlag(flags, userId)
           objectifiedSettings == toObject(generatorSetting)
           index == findIndex(arr, generatorSetting.id)
       IN  IF objectifiedSettings.threw
           THEN [threw |-> TRUE, flags |-> flags]
           ELSE [threw |-> FALSE,
                 flags |->
                   setFlag(flags, userId,
                     IF index >= 0
                     THEN splice(arr, index, 1, <<objectifiedSettings.value>>)
                     ELSE Append(arr, objectifiedSettings.value))]

\* remove(userId, id)
remove(flags, userId, id) ==
  IF userId \notin Users THEN flags
  ELSE LET arr == getFlag(flags, userId)
           index == findIndex(arr, id)
       IN  setFlag(flags, userId,
                   IF index >= 0 THEN splice(arr, index, 1, <<>>) ELSE arr)

\* clear(userId)
clear(flags, userId) ==
  IF userId \notin Users THEN flags ELSE setFlag(flags, userId, <<>>)

NoCall == [op |-> "none", userId |-> "", id |-> "", name |-> "",
           threw |-> FALSE, before |-> [u \in Users |-> NoFlag]]

\* The state of the settings and of the host: the settings at hand, their
\* object, the settings made of the object, the flag of every user and the
\* latest call of the data source with the flags before it.
NoHost ==
  [stage |-> "idle", settings |-> NoSettings,
   object |-> [threw |-> FALSE, value |-> NoSettingsObject],
   restored |-> [threw |-> FALSE, value |-> NoSettings],
   flags |-> [u \in Users |-> NoFlag], last |-> NoCall]

Init ==
  /\ args \in Args
  /\ strategy = NoStrategy
  /\ entropy = 0
  /\ gen = [k \in 1..2 |-> NoGenerator]
  /\ pipe = NoPipe
  /\ host = NoHost

(***************************************************************************)
(* The actions of a generator.                                             *)
(***************************************************************************)
\* new CharDepthSequencingStrategy(args.depth, args.preserveCase)
NewStrategy ==
  /\ strategy.status = "none"
  /\ strategy' = CharDepthSequencingStrategy(args.depth, args.preserveCase)
  /\ UNCHANGED <<args, entropy, gen, pipe, host>>

\* The parameter object handed to the constructor of the generator.
constructorArgs ==
  [sampleSet |-> args.sampleSet, targetLengthMin |-> args.targetLengthMin,
   targetLengthMax |-> args.targetLengthMax,
   sequencingStrategy |-> IF args.passStrategy THEN strategy ELSE NoStrategy,
   spellingStrategy |-> args.spellingStrategy, seed |-> args.seed]

\* A generate() call runs to its end before anything else runs.
Idle(k) == \A j \in 1..2 : j # k => gen[j].pc = "idle"

\* new MarkovChainWordGenerator(args) for the instance k
NewGenerator(k) ==
  /\ strategy.status = "constructed"
  /\ gen[k].status = "none"
  /\ Idle(k)
  /\ gen' = [gen EXCEPT ![k] = constructor(constructorArgs, entropy)]
  /\ entropy' = entropy + 1
  /\ UNCHANGED <<args, strategy, pipe, host>>

\* The number of words that the calls of the instance k asked for so far.
RECURSIVE Asked(_)
Asked(calls) ==
  IF calls = <<>> THEN 0 ELSE Head(calls).howMany + Asked(Tail(calls))

\* generator.generate(howMany) is called on the instance k; the calls of an
\* instance ask for at most MaxWords words in all.
Generate(k, howMany) ==
  /\ gen[k].status = "constructed"
  /\ gen[k].pc = "idle"
  /\ Idle(k)
  /\ Asked(gen[k].calls) + howMany <= MaxWords
  /\ gen' = [gen EXCEPT ![k] = generate_enter(gen[k], howMany)]
  /\ UNCHANGED <<args, strategy, entropy, pipe, host>>

\* The running generate() call of the instance k makes its next attempt.
Attempt(k) ==
  /\ gen[k].pc = "do"
  /\ gen' = [gen EXCEPT ![k] = generate_attempt(gen[k])]
  /\ UNCHANGED <<args, strategy, entropy, pipe, host>>

Next ==
  \/ NewStrategy
  \/ NewGenerator(1)
  \/ \E howMany \in 1..MaxWords : Generate(1, howMany)
  \/ Attempt(1)

Spec == Init /\ [][Next]_vars

\* generate() is synchronous: once called, its loops run on to the return or
\* to the throw without waiting for anything.  This is weak fairness of
\* Attempt(1), written with the state predicate that ENABLED <<Attempt(1)>>_vars
\* equals (every attempt changes the state).
Running == gen[1].pc = "do"

\* The arguments without the choices that no loop of generate() reads: the
\* spelling strategy is applied after the loops, a constructor without a
\* sequencing strategy gives no generator, and the seed only picks the place
\* at which the stream of the random source starts.
InitFair ==
  /\ Init
  /\ args.passStrategy
  /\ args.spellingStrategy = "undefined"
  /\ args.seed = "Test1234567890"

SpecFair ==
  InitFair /\ [][Next]_vars /\ ([]<>(~Running) \/ []<><<Attempt(1)>>_vars)

(***************************************************************************)
(* The tokenization and the aggregation of a sample set on their own.      *)
(***************************************************************************)
InitPipe ==
  /\ args = CHOOSE a \in Args : a.sampleSet.kind = "undefined"
  /\ strategy = NoStrategy
  /\ entropy = 0
  /\ gen = [k \in 1..2 |-> NoGenerator]
  /\ host = NoHost
  /\ \E samples \in PipeSampleSets, strat \in PipeStrategies :
       pipe = [NoPipe EXCEPT !.stage = "input", !.sampleSet = samples,
                             !.strat = strat]

\* sequencingStrategy.getSequencesOfSet(sampleSet)
PipeSequence ==
  /\ pipe.stage = "input"
  /\ pipe' = [pipe EXCEPT !.stage = "sequenced",
                !.sequences = getSequencesOfSet(pipe.strat, pipe.sampleSet)]
  /\ UNCHANGED <<args, strategy, entropy, gen, host>>

\* _aggregateSequences(sequences)
PipeAggregate ==
  /\ pipe.stage = "sequenced"
  /\ pipe' = [pipe EXCEPT !.stage = "aggregated",
                !.aggregated = _aggregateSequences(pipe.sequences)]
  /\ UNCHANGED <<args, strategy, entropy, gen, host>>

\* _getAggregatedSequenceProbabilities(aggregatedSequences)
PipeProbabilities ==
  /\ pipe.stage = "aggregated"
  /\ pipe' = [pipe EXCEPT !.stage = "probabilities",
                !.probabilities =
                  _getAggregatedSequenceProbabilities(pipe.aggregated)]
  /\ UNCHANGED <<args, strategy, entropy, gen, host>>

\* The three calls of _getWeightedProbabilities, each with its outcome.
PipeWeigh ==
  /\ pipe.stage = "probabilities"
  /\ pipe' = [pipe EXCEPT !.stage = "weighted",
                !.probableBeginnings =
                  _getWeightedProbabilities(pipe.probabilities,
                                            SEQUENCE_TYPES.BEGINNING),
                !.probableMiddles =
                  _getWeightedProbabilities(pipe.probabilities,
                                            SEQUENCE_TYPES.MIDDLE),
                !.probableEndings =
                  _getWeightedProbabilities(pipe.probabilities,
                                            SEQUENCE_TYPES.ENDING)]
  /\ UNCHANGED <<args, strategy, entropy, gen, host>>

NextPipe == PipeSequence \/ PipeAggregate \/ PipeProbabilities \/ PipeWeigh

SpecPipe == InitPipe /\ [][NextPipe]_vars

(***************************************************************************)
(* The draws from the tables of a sample set.                              *)
(***************************************************************************)
\* The values handed to _getMatchingSequence: the fractions of [0, 1] in
\* steps of 1 / DrawSteps.
DrawValues == {Rat(n, DrawSteps) : n \in 0..DrawSteps}

DrawSampleSets ==
  {<<t>> : t \in Strings({"B", "G", "b", "o"}, MaxSampleLen)} \cup PipeCorpora

InitDraw ==
  /\ args = CHOOSE a \in Args : a.sampleSet.kind = "undefined"
  /\ strategy = NoStrategy
  /\ entropy = 0
  /\ gen = [k \in 1..2 |-> NoGenerator]
  /\ host = NoHost
  /\ \E samples \in DrawSampleSets, strat \in PipeStrategies :
       pipe = [NoPipe EXCEPT !.stage = "input", !.sampleSet = samples,
                             !.strat = strat]

\* The table of the given type.
tableOf(p, type) ==
  IF type = SEQUENCE_TYPES.BEGINNING THEN p.probableBeginnings
  ELSE IF type = SEQUENCE_TYPES.MIDDLE THEN p.probableMiddles
  ELSE p.probableEndings

\* _getMatchingSequence(table, value) in _generateSingleWord, which is
\* reached once the three tables are built.
PipeDraw(type, value) ==
  /\ pipe.stage = "weighted"
  /\ ~pipe.probableBeginnings.threw
  /\ ~pipe.probableMiddles.threw
  /\ ~pipe.probableEndings.threw
  /\ LET m == _getMatchingSequence(tableOf(pipe, type).value, value)
     IN  pipe' = [pipe EXCEPT !.stage = "drawn",
                    !.draw = [type |-> type, value |-> value,
                              threw |-> m.threw, item |-> m.item]]
  /\ UNCHANGED <<args, strategy, entropy, gen, host>>

NextDraw ==
  \/ PipeSequence
  \/ PipeAggregate
  \/ PipeProbabilities
  \/ PipeWeigh
  \/ \E type \in {SEQUENCE_TYPES.BEGINNING, SEQUENCE_TYPES.MIDDLE,
                   SEQUENCE_TYPES.ENDING}, value \in DrawValues :
       PipeDraw(type, value)

SpecDraw == InitDraw /\ [][NextDraw]_vars

(***************************************************************************)
(* The round trip of the settings.                                         *)
(***************************************************************************)
SettingsIds == {"a", "b"}

SettingsStrategies ==
  {newCharDepthSequencingStrategy(Number(d, 1), Boolean(p)).value :
     d \in 1..MaxDepth, p \in BOOLEAN}
  \cup {DelimiterSequencingStrategy(String(t)).value : t \in {",", "-"}}

SettingsInputs ==
  {GeneratorSettings(id, "name", sampleSet, min, max, strat, spelling, 0) :
     id \in SettingsIds, sampleSet \in Corpora, min \in 1..MaxTargetLength,
     max \in 1..MaxTargetLength, strat \in SettingsStrategies,
     spelling \in {"undefined", "BeginningCapitals"}}

InitSettings ==
  /\ args = CHOOSE a \in Args : a.sampleSet.kind = "undefined"
  /\ strategy = NoStrategy
  /\ entropy = 0
  /\ gen = [k \in 1..2 |-> NoGenerator]
  /\ pipe = NoPipe
  /\ \E settings \in SettingsInputs :
       host = [NoHost EXCEPT !.stage = "settings", !.settings = settings]

\* settings.toObject()
ToObject ==
  /\ host.stage = "settings"
  /\ host' = [host EXCEPT !.stage = "object",
                !.object = toObject(host.settings)]
  /\ UNCHANGED <<args, strategy, entropy, gen, pipe>>

\* GeneratorSettings.fromObject(obj) of the object that toObject() returned
FromObject ==
  /\ host.stage = "object"
  /\ ~host.object.threw
  /\ host' = [host EXCEPT !.stage = "restored",
                !.restored = fromObject(host.object.value)]
  /\ UNCHANGED <<args, strategy, entropy, gen, pipe>>

NextSettings == ToObject \/ FromObject

SpecSettings == InitSettings /\ [][NextSettings]_vars

(***************************************************************************)
(* The calls of the data source.                                           *)
(***************************************************************************)
\* The user ids of the calls: the users and one id that game.users does not
\* know.
UserIds == Users \cup {"u0"}

FlagIds == {"a", "b", "c"}

\* The settings handed to set(): they differ in id and name, and have a
\* spelling strategy or none.
FlagSettings ==
  {GeneratorSettings(id, name, << <<"G", "o">> >>, 1, 1,
     newCharDepthSequencingStrategy(Number(1, 1), Boolean(FALSE)).value,
     spelling, 0) :
     id \in FlagIds, name \in {"n1", "n2"},
     spelling \in {"undefined", "BeginningCapitals"}}

InitFlags ==
  /\ args = CHOOSE a \in Args : a.sampleSet.kind = "undefined"
  /\ strategy = NoStrategy
  /\ entropy = 0
  /\ gen = [k \in 1..2 |-> NoGenerator]
  /\ pipe = NoPipe
  /\ host = [NoHost EXCEPT !.stage = "flags"]

Set(userId, generatorSetting) ==
  /\ host.stage = "flags"
  /\ LET r == set(host.flags, userId, generatorSetting)
     IN  host' = [host EXCEPT !.flags = r.flags,
                   !.last = [op |-> "set", userId |-> userId,
                             id |-> generatorSetting.id,
                             name |-> generatorSetting.name,
                             threw |-> r.threw, before |-> host.flags]]
  /\ UNCHANGED <<args, strategy, entropy, gen, pipe>>

Remove(userId, id) ==
  /\ host.stage = "flags"
  /\ host' = [host EXCEPT !.flags = remove(host.flags, userId, id),
                !.last = [op |-> "remove", userId |-> userId, id |-> id,
                          name |-> "", threw |-> FALSE,
                          before |-> host.flags]]
  /\ UNCHANGED <<args, strategy, entropy, gen, pipe>>

Clear(userId) ==
  /\ host.stage = "flags"
  /\ host' = [host EXCEPT !.flags = clear(host.flags, userId),
                !.last = [op |-> "clear", userId |-> userId, id |-> "",
                          name |-> "", threw |-> FALSE,
                          before |-> host.flags]]
  /\ UNCHANGED <<args, strategy, entropy, gen, pipe>>

NextFlags ==
  \/ \E userId \in UserIds, generatorSetting \in FlagSettings :
       Set(userId, generatorSetting)
  \/ \E userId \in UserIds, id \in FlagIds : Remove(userId, id)
  \/ \E userId \in UserIds : Clear(userId)

SpecFlags == InitFlags /\ [][NextFlags]_vars

\* The first instance is called once the second one has repeated its calls.
First(howMany) ==
  /\ gen[2].status # "none"
  /\ Len(gen[2].calls) = Len(gen[1].calls)
  /\ Generate(1, howMany)

\* The second instance is driven by the calls that the first one received.
Repeat(howMany) ==
  /\ Len(gen[2].calls) < Len(gen[1].calls)
  /\ howMany = gen[1].calls[Len(gen[2].calls) + 1].howMany
  /\ Generate(2, howMany)

\* Two instances that are constructed from the same arguments, one after the
\* other, and that receive the same calls.
NextTwo ==
  \/ NewStrategy
  \/ NewGenerator(1)
  \/ NewGenerator(2)
  \/ \E howMany \in 1..MaxWords : First(howMany)
  \/ \E howMany \in 1..MaxWords : Repeat(howMany)
  \/ Attempt(1)
  \/ Attempt(2)

SpecTwo == Init /\ [][NextTwo]_vars

(***************************************************************************)
(* Properties of generate().                                               *)
(***************************************************************************)
Instances == 1..2

\* The outcomes of the generate() calls of the instance k that returned.
ReturnedCalls(k) ==
  {n \in 1..Len(gen[k].calls) : gen[k].calls[n].threw = "none"}

\* C1: a generate(howMany) call that returns, returns a list of exactly
\* howMany strings, with or without a spelling strategy.
C1_ReturnsHowMany ==
  \A k \in Instances : \A n \in ReturnedCalls(k) :
    Len(gen[k].calls[n].value) = gen[k].calls[n].howMany

C1_Witness ==
  \E n \in ReturnedCalls(1) :
    /\ gen[1].calls[n].howMany >= 2
    /\ Len(gen[1].calls[n].value) = gen[1].calls[n].howMany
    /\ gen[1].spellingStrategy = "BeginningCapitals"

\* C2: no two strings of the list returned by one generate() call are equal,
\* whatever the settings of the sequencing strategy (preserveCase included)
\* and with or without a spelling strategy.
C2_NoTwoEqual ==
  \A k \in Instances : \A n \in ReturnedCalls(k) :
    LET value == gen[k].calls[n].value
    IN  \A a, b \in 1..Len(value) : a # b => value[a] # value[b]

\* C5: the only failure a caller of generate() observes is the failure of
\* the retry ceiling; a role without tokens gives an empty table and no
\* error of the table building reaches the caller.
C5_OnlyCeilingFailure ==
  \A k \in Instances : \A n \in 1..Len(gen[k].calls) :
    gen[k].calls[n].threw \in {"none", "Error"}

\* The latest generate() call of the instance k ended by the error of the
\* retry ceiling.
Exhausted(k) ==
  /\ gen[k].pc = "idle"
  /\ gen[k].calls # <<>>
  /\ gen[k].calls[Len(gen[k].calls)].threw = "Error"

\* The latest attempt of g failed: it threw or gave a word that is in words.
AttemptFailed(g, words) ==
  g.last.threw \/ \E j \in 1..Len(words) : words[j] = g.last.word

C4_Ceiling(k) ==
  /\ gen[k].last.try <= repetitionMaximum
  /\ Exhausted(k) =>
       /\ gen[k].last.try = repetitionMaximum
       /\ AttemptFailed(gen[k], gen[k].words)
       /\ gen[k].calls[Len(gen[k].calls)].value = <<>>

C4_Step(k) ==
  (gen[k].pc = "do" /\ gen'[k] # gen[k]) =>
    LET g == gen[k]
        h == gen'[k]
        tried == h.last.try = g.attempt + 1
    IN  /\ g.attempt < repetitionMaximum => tried
        /\ (tried /\ ~AttemptFailed(h, g.words)) =>
             h.words = Append(g.words, h.last.word)
        /\ (tried /\ AttemptFailed(h, g.words)
              /\ h.last.try < repetitionMaximum) =>
             (h.pc = "do" /\ h.words = g.words /\ h.calls = g.calls)
        /\ (tried /\ AttemptFailed(h, g.words)
              /\ h.last.try = repetitionMaximum /\ h.pc = "idle") =>
             h.calls = Append(g.calls, [howMany |-> g.howMany,
                                        threw |-> "Error", value |-> <<>>])
        /\ g.attempt >= repetitionMaximum =>
             h.calls = Append(g.calls, [howMany |-> g.howMany,
                                        threw |-> "Error", value |-> <<>>])

\* C4: for each word, the candidate of any of the first 1000 attempts is
\* accepted when it assembled and is no duplicate of an accepted word; when
\* all 1000 attempts for a word failed, generate() throws and returns no
\* list, the words accepted before included.
C4_RetryCeiling ==
  /\ [](\A k \in Instances : C4_Ceiling(k))
  /\ [][\A k \in Instances : C4_Step(k)]_vars

C4_Witness ==
  /\ Exhausted(1)
  /\ gen[1].last.try = repetitionMaximum
  /\ Len(gen[1].words) >= 1

\* An integer that is at least 1.
IntegerAtLeastOne(x) ==
  x.kind = "number" /\ x.num >= x.den /\ \E n \in 1..x.num : x.num = n * x.den

C9_WordLength ==
  \A k \in Instances :
    LET g == gen[k]
        l == g.last
        ordered == g.targetLengthMin <= g.targetLengthMax
    IN  /\ (l.try > 0 /\ ~l.threw) =>
             /\ Len(l.word) >= l.targetLength
             /\ ordered => (/\ g.targetLengthMin <= l.targetLength
                            /\ l.targetLength <= g.targetLengthMax)
             /\ l.middles # <<>> =>
                  Len(l.word) < l.targetLength + Len(l.middles[Len(l.middles)])
        /\ \A n \in ReturnedCalls(k) :
             \A j \in 1..Len(g.calls[n].value) :
               ordered => Len(g.calls[n].value[j]) >= g.targetLengthMin

C9_Witness ==
  /\ gen[1].last.try > 0
  /\ ~gen[1].last.threw
  /\ gen[1].last.middles # <<>>
  /\ Len(gen[1].last.word) > gen[1].last.targetLength
  /\ gen[1].targetLengthMin < gen[1].targetLengthMax

\* The entries of a table are in ascending order of the frequency of their
\* sequences for the role of the table, the role probability being that
\* frequency over the total of the role.
Ascending(table, frequency) ==
  \A j \in 1..(Len(table) - 1) :
    table[j].sequence[frequency] <= table[j + 1].sequence[frequency]

\* C10: in the weighted table of every role the entries are in ascending
\* order of their own (non-cumulative) role probability, whatever the order
\* in which the tokens first occur in the corpus.
C10_TablesAscending ==
  \A k \in Instances :
    gen[k].pc = "do" =>
      /\ Ascending(gen[k].probableBeginnings, "frequencyBeginning")
      /\ Ascending(gen[k].probableMiddles, "frequencyMiddle")
      /\ Ascending(gen[k].probableEndings, "frequencyEnding")

Tokenized ==
  /\ pipe.stage \in {"sequenced", "aggregated", "probabilities", "weighted"}
  /\ Len(pipe.sampleSet) = 1

\* C7: a sample that fits in one chunk (1 <= length <= depth) gives one
\* token that is tagged beginning and ending and not middle, and the
\* aggregation counts it as a beginning and as an ending.
C7_SingleChunkBothRoles ==
  (/\ Tokenized
   /\ Len(pipe.sampleSet[1]) >= 1
   /\ Len(pipe.sampleSet[1]) <= pipe.strat.depth) =>
    /\ Len(pipe.sequences) = 1
    /\ pipe.sequences[1].isBeginning
    /\ pipe.sequences[1].isEnding
    /\ ~pipe.sequences[1].isMiddle
    /\ pipe.stage \in {"aggregated", "probabilities", "weighted"} =>
         /\ Len(pipe.aggregated) = 1
         /\ pipe.aggregated[1].frequencyBeginning = 1
         /\ pipe.aggregated[1].frequencyEnding = 1

\* C8: a sample of length n is split into ceil(n / depth) chunks taken at
\* the offsets 0, depth, 2 * depth, ...; every chunk but the last has depth
\* characters and the last has 1 to depth; the chunks in order make up the
\* sample, in lower case unless preserveCase is true; an empty sample gives
\* no token; depth 2 and "Bob" give "bo" (beginning) and "b" (ending).
C8_Chunks ==
  Tokenized =>
    LET sample == pipe.sampleSet[1]
        n == Len(sample)
        depth == pipe.strat.depth
        cased(t) == IF pipe.strat.preserveCase
                    THEN t
                    ELSE [j \in 1..Len(t) |-> LowerOf[t[j]]]
        count == Len(pipe.sequences)
        end(j) == IF j * depth < n THEN j * depth ELSE n
    IN  /\ count * depth >= n
        /\ (count - 1) * depth < n \/ count = 0
        /\ \A j \in 1..count :
             /\ pipe.sequences[j].chars
                  = cased(SubSeq(sample, (j - 1) * depth + 1, end(j)))
             /\ j < count => Len(pipe.sequences[j].chars) = depth
             /\ Len(pipe.sequences[j].chars) >= 1
             /\ Len(pipe.sequences[j].chars) <= depth
        /\ join([j \in 1..count |-> pipe.sequences[j].chars]) = cased(sample)
        /\ n = 0 => pipe.sequences = <<>>
        /\ (sample = <<"B", "o", "b">> /\ depth = 2
              /\ ~pipe.strat.preserveCase) =>
             pipe.sequences
               = << [chars |-> <<"b", "o">>, isBeginning |-> TRUE,
                     isMiddle |-> FALSE, isEnding |-> FALSE],
                    [chars |-> <<"b">>, isBeginning |-> FALSE,
                     isMiddle |-> FALSE, isEnding |-> TRUE] >>

C8_Witness ==
  /\ Tokenized
  /\ pipe.sampleSet[1] = <<"B", "o", "b">>
  /\ pipe.strat.depth = 2
  /\ ~pipe.strat.preserveCase
  /\ Len(pipe.sequences) = 2

(***************************************************************************)
(* Properties of the aggregation and of the weighted tables.               *)
(***************************************************************************)
\* The stages at which the aggregation has been done.
Aggregated == pipe.stage \in {"aggregated", "probabilities", "weighted"}

\* The number of the tokens with the given chars that satisfy flag.
CountTokens(chars, flag(_)) ==
  Cardinality({j \in 1..Len(pipe.sequences) :
                 pipe.sequences[j].chars = chars /\ flag(pipe.sequences[j])})

\* C12: the aggregation gives one record per distinct chars of the tokens;
\* frequencyBeginning, frequencyMiddle and frequencyEnding count the tokens
\* of that chars with the role flag (a token of two roles counts in both)
\* and frequency counts them once per token, so that the frequencies add up
\* to the number of tokens and frequency <= the sum of the three role
\* frequencies.
C12_Aggregation ==
  Aggregated =>
    LET a == pipe.aggregated
        isB(t) == t.isBeginning
        isM(t) == t.isMiddle
        isE(t) == t.isEnding
        any(t) == TRUE
    IN  /\ \A j, k \in 1..Len(a) : a[j].chars = a[k].chars => j = k
        /\ {a[j].chars : j \in 1..Len(a)}
             = {pipe.sequences[j].chars : j \in 1..Len(pipe.sequences)}
        /\ \A j \in 1..Len(a) :
             /\ a[j].frequencyBeginning = CountTokens(a[j].chars, isB)
             /\ a[j].frequencyMiddle = CountTokens(a[j].chars, isM)
             /\ a[j].frequencyEnding = CountTokens(a[j].chars, isE)
             /\ a[j].frequency = CountTokens(a[j].chars, any)
             /\ a[j].frequency <= a[j].frequencyBeginning
                                   + a[j].frequencyMiddle
                                   + a[j].frequencyEnding
        /\ sumOf(a, "frequency") = Len(pipe.sequences)

C12_Witness ==
  /\ Aggregated
  /\ Len(pipe.aggregated) >= 2
  /\ \E j \in 1..Len(pipe.aggregated) :
       LET r == pipe.aggregated[j]
       IN  /\ r.frequency >= 2
           /\ r.frequency < r.frequencyBeginning + r.frequencyMiddle
                             + r.frequencyEnding

\* The sum of the frequencies of the role of the first j entries of a table.
RECURSIVE FrequencyUpTo(_, _, _)
FrequencyUpTo(table, frequency, j) ==
  IF j = 0 THEN 0
  ELSE table[j].sequence[frequency] + FrequencyUpTo(table, frequency, j - 1)

\* The table of a role holds the tokens of the role, once each, with the
\* cumulative role probability.
WeightedTable(table, frequency) ==
  LET a == pipe.aggregated
      total == sumOf(a, frequency)
      occurring == {j \in 1..Len(a) : a[j][frequency] > 0}
      t == table.value
  IN  total > 0 =>
        /\ ~table.threw
        /\ Len(t) = Cardinality(occurring)
        /\ {t[j].sequence : j \in 1..Len(t)} = {a[j] : j \in occurring}
        /\ \A j \in 1..Len(t) :
             /\ t[j].probability.den > 0
             /\ t[j].probability.num * total
                  = FrequencyUpTo(t, frequency, j) * t[j].probability.den
             /\ RatLt(RatZero, t[j].probability)
             /\ j < Len(t) => RatLt(t[j].probability, t[j + 1].probability)
        /\ t[Len(t)].probability = RatOne

\* C11: for a role with at least one token, the weighted table holds one
\* entry per distinct token of a frequency > 0 for the role and none for the
\* others; the cumulative value of an entry is the sum of the role
\* probabilities (frequency / total of the role) of the entries up to it, so
\* the column is positive and strictly increasing, and the last is exactly 1.
C11_WeightedTables ==
  pipe.stage = "weighted" =>
    /\ WeightedTable(pipe.probableBeginnings, "frequencyBeginning")
    /\ WeightedTable(pipe.probableMiddles, "frequencyMiddle")
    /\ WeightedTable(pipe.probableEndings, "frequencyEnding")

C11_Witness ==
  /\ pipe.stage = "weighted"
  /\ Len(pipe.probableMiddles.value) >= 3
  /\ \E j \in 1..Len(pipe.probableMiddles.value) :
       pipe.probableMiddles.value[j].sequence.frequencyMiddle >= 2
  /\ Len(pipe.probableEndings.value) >= 3
  /\ Len(pipe.probableEndings.value) < Len(pipe.aggregated)

\* C16: the chunk at the offset i of a sample of n characters is a beginning
\* iff i = 0, an ending iff i + 1 >= n and a middle iff neither.  So every
\* token has a role, a middle has no other role, a non-empty sample has
\* exactly one beginning, a token is beginning and ending only when n = 1,
\* every ending is a single character, and a sample whose last chunk has
\* more than one character gives no ending.
C16_RoleTagging ==
  Tokenized =>
    LET n == Len(pipe.sampleSet[1])
        depth == pipe.strat.depth
        t == pipe.sequences
        count == Len(t)
        offset(j) == (j - 1) * depth
    IN  /\ \A j \in 1..count :
             /\ t[j].isBeginning <=> offset(j) = 0
             /\ t[j].isEnding <=> offset(j) + 1 >= n
             /\ t[j].isMiddle <=> (~t[j].isBeginning /\ ~t[j].isEnding)
             /\ t[j].isBeginning \/ t[j].isMiddle \/ t[j].isEnding
             /\ (t[j].isBeginning /\ t[j].isEnding) => n = 1
             /\ t[j].isEnding => Len(t[j].chars) = 1
        /\ n > 0 => Cardinality({j \in 1..count : t[j].isBeginning}) = 1
        /\ (count > 0 /\ Len(t[count].chars) > 1) =>
             \A j \in 1..count : ~t[j].isEnding

C16_Witness ==
  /\ Tokenized
  /\ Len(pipe.sampleSet[1]) = 2
  /\ pipe.strat.depth = 2
  /\ Len(pipe.sequences) = 1
  /\ pipe.sequences[1].isBeginning
  /\ ~pipe.sequences[1].isEnding

\* C13: a draw with the value v scans the table in order and returns the
\* first entry whose cumulative value is >= v; from a table that the
\* generator built, which is not empty, a draw with a v of [0, 1] returns an
\* entry and never fails.
C13_Draw ==
  pipe.stage = "drawn" =>
    LET t == tableOf(pipe, pipe.draw.type).value
        v == pipe.draw.value
    IN  /\ t # <<>>
        /\ ~pipe.draw.threw
        /\ \E k \in 1..Len(t) :
             /\ pipe.draw.item = t[k]
             /\ v.num * t[k].probability.den
                  <= t[k].probability.num * v.den
             /\ \A j \in 1..(k - 1) :
                  v.num * t[j].probability.den > t[j].probability.num * v.den

C13_Witness ==
  /\ pipe.stage = "drawn"
  /\ ~pipe.draw.threw
  /\ LET t == tableOf(pipe, pipe.draw.type).value
         v == pipe.draw.value
     IN  /\ Len(t) >= 3
         /\ pipe.draw.item = t[2]
         /\ v.num * t[2].probability.den = t[2].probability.num * v.den

(***************************************************************************)
(* Properties of the assembly of a word.                                   *)
(***************************************************************************)
\* The state of the random source after n draws.
RECURSIVE RngAfter(_, _)
RngAfter(state, n) == IF n = 0 THEN state ELSE rngAdvance(RngAfter(state, n - 1))

\* The chars of the first entry of the table whose cumulative value is at
\* least the value of the n-th draw.
Drawn(table, state, n) ==
  LET v == RngAfter(state, n)
      k == CHOOSE k \in 1..Len(table) :
             /\ v * table[k].probability.den
                  <= table[k].probability.num * RngModulus
             /\ \A j \in 1..(k - 1) :
                  v * table[j].probability.den
                    > table[j].probability.num * RngModulus
  IN  table[k].sequence.chars

\* The sum of the lengths of the first j strings of the list.
RECURSIVE LengthUpTo(_, _)
LengthUpTo(list, j) ==
  IF j = 0 THEN 0 ELSE Len(list[j]) + LengthUpTo(list, j - 1)

C14_Step(k) ==
  (/\ gen[k].pc = "do"
   /\ gen'[k].last.try = gen[k].attempt + 1
   /\ ~gen'[k].last.threw) =>
    LET g == gen[k]
        l == gen'[k].last
        ends == Len(l.beginning) + Len(l.ending)
        count == Len(l.middles)
    IN  /\ l.beginning = Drawn(g.probableBeginnings, g.rng, 2)
        /\ l.ending = Drawn(g.probableEndings, g.rng, 3)
        /\ \A j \in 1..count :
             /\ l.middles[j] = Drawn(g.probableMiddles, g.rng, 3 + j)
             /\ ends + LengthUpTo(l.middles, j - 1) < l.targetLength
        /\ ends + LengthUpTo(l.middles, count) >= l.targetLength
        /\ ends >= l.targetLength => l.middles = <<>>
        /\ l.word = l.beginning \o join(l.middles) \o l.ending
        /\ gen'[k].rng = RngAfter(g.rng, 3 + count)

\* C14: an assembly attempt draws the beginning first, then the ending,
\* whose length counts toward the target at once, then middles only while
\* the counted length is < the target length; the word is the beginning,
\* the middles in the order of their draws and the ending, and there is no
\* middle when the beginning and the ending reach the target length.
C14_AssemblyOrder == [][\A k \in Instances : C14_Step(k)]_vars

C14_Witness ==
  /\ gen[1].last.try > 0
  /\ ~gen[1].last.threw
  /\ Len(gen[1].last.middles) = 1
  /\ gen[1].last.middles[1] # gen[1].last.beginning
  /\ gen[1].last.beginning # gen[1].last.ending
  /\ gen[1].last.word
       = gen[1].last.beginning \o gen[1].last.middles[1] \o gen[1].last.ending

(***************************************************************************)
(* Termination of generate().                                              *)
(***************************************************************************)
C15_Bound(k) ==
  LET g == gen[k]
  IN  /\ g.pc = "do" =>
           /\ g.i < g.howMany
           /\ g.attempt <= repetitionMaximum
           /\ g.attempts <= g.i * repetitionMaximum + g.attempt
      /\ g.attempts <= g.howMany * repetitionMaximum
      /\ (g.last.try > 0 /\ ~g.last.threw) =>
           /\ Len(g.last.middles) <= g.last.targetLength
           /\ \A j \in 1..Len(g.last.middles) : Len(g.last.middles[j]) >= 1

\* C15: generate(howMany) always terminates, by a return or by a throw: the
\* attempt counter starts at 0 for every word, so a call makes at most
\* howMany * 1000 assembly attempts, and the loop of the middles of an
\* attempt ends after at most targetLength iterations, every token having at
\* least one character.
C15_Terminates ==
  /\ [](\A k \in Instances : C15_Bound(k))
  /\ \A k \in Instances : (gen[k].pc = "do") ~> (gen[k].pc = "idle")

C15_Witness ==
  /\ Exhausted(1)
  /\ gen[1].howMany >= 2
  /\ gen[1].attempts > repetitionMaximum

(***************************************************************************)
(* What a generate() call changes.                                         *)
(***************************************************************************)
\* The configuration of an instance.
Configuration(g) ==
  <<g.status, g.sampleSet, g.targetLengthMin, g.targetLengthMax, g.seed,
    g.sequencingStrategy, g.spellingStrategy>>

Tables(g) == <<g.probableBeginnings, g.probableMiddles, g.probableEndings>>

\* The table of the type built from the corpus of g.
BuiltFromCorpus(g, type) ==
  _getWeightedProbabilities(
    _getAggregatedSequenceProbabilities(
      _aggregateSequences(
        getSequencesOfSet(g.sequencingStrategy, g.sampleSet))),
    type).value

C17_Step(k) ==
  LET g == gen[k]
      h == gen'[k]
  IN  g.status = "constructed" =>
        /\ Configuration(h) = Configuration(g)
        /\ (g.pc = "idle" /\ h # g) =>
             /\ h.rng = g.rng
             /\ h.pc = "do" =>
                  Tables(h) = <<BuiltFromCorpus(g, SEQUENCE_TYPES.BEGINNING),
                                BuiltFromCorpus(g, SEQUENCE_TYPES.MIDDLE),
                                BuiltFromCorpus(g, SEQUENCE_TYPES.ENDING)>>
        /\ (g.pc = "do" /\ h.pc = "do") => Tables(h) = Tables(g)

\* C17: a generate() call leaves the configuration of the generator as it
\* is and keeps no table on the instance: the tables are built from the
\* corpus by every call, once per call, and used for every word of the
\* call.  The call changes the position of the random source only, so that
\* a second call goes on in the stream and does not start at the seed again.
C17_Frame ==
  /\ [](\A k \in Instances :
          gen[k].pc = "idle" => Tables(gen[k]) = <<<<>>, <<>>, <<>>>>)
  /\ [][\A k \in Instances : C17_Step(k)]_vars

C17_Witness ==
  /\ gen[1].pc = "do"
  /\ Len(gen[1].calls) >= 1
  /\ gen[1].calls[1].threw = "none"
  /\ gen[1].rng # RandomSeeded(gen[1].seed)
  /\ gen[1].i >= 1
  /\ gen[1].probableBeginnings # <<>>

(***************************************************************************)
(* Properties of the settings.                                             *)
(***************************************************************************)
\* C18: for settings with a CharDepth or a Delimiter strategy,
\* fromObject(toObject()) gives settings of the same id, name, sampleSet and
\* length bounds, with a sequencing strategy of the same kind whose
\* getSettings() equals that of the settings; the round trip is defined
\* for settings without a spelling strategy, too.
C18_RoundTrip ==
  /\ host.stage \in {"object", "restored"} => ~host.object.threw
  /\ host.stage = "restored" =>
       LET s == host.settings
           r == host.restored.value
       IN  /\ ~host.restored.threw
           /\ r.id = s.id
           /\ r.name = s.name
           /\ r.sampleSet = s.sampleSet
           /\ r.targetLengthMin = s.targetLengthMin
           /\ r.targetLengthMax = s.targetLengthMax
           /\ r.sequencingStrategy.class = s.sequencingStrategy.class
           /\ getSettings(r.sequencingStrategy)
                = getSettings(s.sequencingStrategy)

(***************************************************************************)
(* Properties of the data source.                                          *)
(***************************************************************************)
\* The entries of arr without those of the id.
Without(arr, id) ==
  LET keep(e) == e.id # id IN SelectSeq(arr, keep)

\* What the latest call did to the array of its user, set() being taken to
\* store its setting whatever the setting is.
CallEffect(stored) ==
  LET l == host.last
      before == getFlag(l.before, l.userId)
      after == getFlag(host.flags, l.userId)
      at == {k \in 1..Len(before) : before[k].id = l.id}
  IN  /\ l.op = "set" =>
           /\ stored
           /\ \E k \in 1..Len(after) :
                /\ after[k].id = l.id
                /\ after[k].name = l.name
                /\ at # {} => (k \in at /\ Len(after) = Len(before))
                /\ at = {} => (k = Len(after) /\ Len(after) = Len(before) + 1)
                /\ \A j \in 1..Len(before) : j # k => after[j] = before[j]
      /\ l.op = "remove" => after = Without(before, l.id)
      /\ l.op = "clear" => after = <<>>

UniqueIds ==
  \A u \in Users :
    LET arr == getFlag(host.flags, u)
    IN  \A j, k \in 1..Len(arr) : arr[j].id = arr[k].id => j = k

\* C19: for an existing user, from a flag that is not set, after any calls
\* of set(), remove() and clear() the stored array has at most one entry per
\* id; set() with a stored id replaces that entry at its index and leaves
\* the others and the order as they are, set() with a new id appends one
\* entry at the end, remove() deletes the entry of the id only (nothing when
\* there is none), clear() stores the empty array, and every call for an
\* unknown user changes nothing.
C19_FlagStore ==
  /\ UniqueIds
  /\ (host.last.op # "none" /\ host.last.userId \notin Users) =>
       host.flags = host.last.before
  /\ host.last.userId \in Users => CallEffect(~host.last.threw)

====
